---- MODULE Spec2Model ----
(***************************************************************************)
(* Water-rocket simulator server (src/server.py).                          *)
(*                                                                         *)
(* Part I  - the broadcast hub: ConnectionManager, the /ws receive loop    *)
(*           and the /launch handler, as asyncio tasks that interleave at  *)
(*           their await points.                                           *)
(* Part II - simulate_flight, the fixed-step integrator, over a model of   *)
(*           Python floats.                                                *)
(***************************************************************************)
EXTENDS Integers, Sequences, FiniteSets, TLC

(***************************************************************************)
(* Bounds of the hub model.                                                *)
(***************************************************************************)
NumViewers == 2

\* The messages the hub accepts in one run, by acceptance order.
MsgIds == {1, 2}

\* roll_live_events: four independent event types.
NumEventTypes == 4

Viewers == 1..NumViewers
\* One launch request next to the viewers' handlers.
Launches == {NumViewers + 1}
Tasks == Viewers \cup Launches

\* Inbound frame shapes of the live channel.
ChatFrame == "chat"
NonChatFrames == {"other_type", "no_type", "non_object", "unparseable"}
FrameKinds == {ChatFrame} \cup NonChatFrames
NoFrame == <<0, "none">>

VARIABLES
    active_connections, \* ConnectionManager.active_connections
    pc,                 \* position of every task (handler per viewer, launch request)
    bmsg,               \* message of the broadcast call a task is inside (0: none)
    snap,               \* list(self.active_connections) of that call
    idx,                \* index in snap of the send being awaited
    events,             \* launch: event messages still to broadcast
    channel,            \* channel of every accepted message, in acceptance order
    sendlog,            \* per viewer, the messages send_json was called with, in call order
    fails,              \* per task, viewers whose send raised in the current call
    failed,             \* viewers a delivery to which has raised
    failedAtStart,      \* per task, failed when its current call started
    interfered,         \* per task, registry changed by another operation during the call
    lastFrame,          \* <<viewer, shape>> of the inbound frame the last step processed
    budget              \* number of messages the hub accepts in this run

hubvars == <<active_connections, pc, bmsg, snap, idx, events, channel, sendlog,
             fails, failed, failedAtStart, interfered, lastFrame, budget>>

VARIABLES
    p,              \* the LaunchParams of the run
    derived,        \* the locals set before the loop (lines 76-107)
    simpc,          \* "loop", "exit" (break taken), "done" (returned), "raised"
    t,              \* elapsed time, s
    x, y,           \* position, m (y unclamped)
    vx, vy,         \* velocity, m/s
    m_water, m_air, \* propellant masses, kg
    mass,           \* total mass, kg
    thrust,         \* thrust of the last step, N
    airborne,       \* the flag of line 109
    airborne_at,    \* number of the step that set the flag (0: not set)
    n,              \* len(times) = len(xs) = len(ys)
    xs_last,        \* xs[-1]
    ys_last,        \* ys[-1]
    ys_max,         \* max(ys)
    max_altitude_m, \* result
    range_m         \* result

simvars == <<p, derived, simpc, t, x, y, vx, vy, m_water, m_air, mass, thrust,
             airborne, airborne_at, n, xs_last, ys_last, ys_max,
             max_altitude_m, range_m>>

vars == <<hubvars, simvars>>

\* What the hub's operations never touch.
others == <<budget, simvars>>

Range(s) == {s[i] : i \in DOMAIN s}

\* ConnectionManager.connect, after accept(): self.active_connections.append(websocket)
RegAppendTwice(list, ws) == Append(Append(list, ws), ws)
RegAppend(list, ws) == Append(list, ws)

\* list.remove(x): drops the first occurrence.
RemoveFirst(list, ws) ==
    LET hit == {i \in DOMAIN list : list[i] = ws}
        k == CHOOSE i \in hit : \A j \in hit : i <= j
    IN  [i \in 1..(Len(list) - 1) |-> IF i < k THEN list[i] ELSE list[i + 1]]

\* ConnectionManager.disconnect
DisconnectKeeps(list, ws) == list
disconnect(list, ws) == IF ws \in Range(list) THEN RemoveFirst(list, ws) ELSE list

InFlight(tk) == pc[tk] \in {"sending", "stalled", "returned"}
\* Between two awaits a task runs alone: a call that has just returned goes on
\* (next statement of its caller) before any other task is scheduled.
Running == \E tk \in Tasks : pc[tk] = "returned"

Interfere(tk, reg) ==
    [u \in Tasks |-> interfered[u] \/ (u # tk /\ InFlight(u) /\ reg # active_connections)]

(***************************************************************************)
(* ConnectionManager.broadcast.  A call runs from one await to the next    *)
(* without interruption; every `await connection.send_json(message)` is a  *)
(* point where the task is suspended and other tasks run.                  *)
(***************************************************************************)

\* broadcast(message) from its entry to its first await: the message is
\* accepted, the registry is copied, send_json is called on the first entry.
BeginBroadcast(tk, ch) ==
    LET m == Len(channel) + 1
        s == active_connections
    IN  /\ channel' = Append(channel, ch)
        /\ bmsg' = [bmsg EXCEPT ![tk] = m]
        /\ snap' = [snap EXCEPT ![tk] = s]
        /\ fails' = [fails EXCEPT ![tk] = {}]
        /\ failedAtStart' = [failedAtStart EXCEPT ![tk] = failed]
        /\ interfered' = [interfered EXCEPT ![tk] = FALSE]
        /\ IF s = <<>>
             THEN /\ idx' = [idx EXCEPT ![tk] = 0]
                  /\ pc' = [pc EXCEPT ![tk] = "returned"]
                  /\ sendlog' = sendlog
             ELSE /\ idx' = [idx EXCEPT ![tk] = 1]
                  /\ pc' = [pc EXCEPT ![tk] = "sending"]
                  /\ sendlog' = [sendlog EXCEPT ![s[1]] = Append(@, m)]
        /\ UNCHANGED <<active_connections, failed>>

\* The for loop after one send is over: send_json on the next entry of the
\* snapshot, or the end of the call.
LoopStopsAfterFailure(tk) ==
    IF idx[tk] < Len(snap[tk]) /\ fails'[tk] = {}
      THEN /\ idx' = [idx EXCEPT ![tk] = @ + 1]
           /\ sendlog' = [sendlog EXCEPT ![snap[tk][idx[tk] + 1]] = Append(@, bmsg[tk])]
           /\ pc' = pc
      ELSE /\ idx' = idx
           /\ sendlog' = sendlog
           /\ pc' = [pc EXCEPT ![tk] = "returned"]
NextConnection(tk) ==
    IF idx[tk] < Len(snap[tk])
      THEN /\ idx' = [idx EXCEPT ![tk] = @ + 1]
           /\ sendlog' = [sendlog EXCEPT ![snap[tk][idx[tk] + 1]] = Append(@, bmsg[tk])]
           /\ pc' = pc
      ELSE /\ idx' = idx
           /\ sendlog' = sendlog
           /\ pc' = [pc EXCEPT ![tk] = "returned"]

\* await connection.send_json(message) returns.
SendReturns(tk) ==
    /\ UNCHANGED others
    /\ ~Running
    /\ pc[tk] = "sending"
    /\ fails' = fails
    /\ NextConnection(tk)
    /\ lastFrame' = NoFrame
    /\ UNCHANGED <<active_connections, bmsg, snap, events, channel, failed,
                   failedAtStart, interfered>>

\* await connection.send_json(message) raises: except Exception: self.disconnect(connection)
SendRaises(tk) ==
    /\ UNCHANGED others
    /\ ~Running
    /\ pc[tk] = "sending"
    /\ LET conn == snap[tk][idx[tk]]
           reg == disconnect(active_connections, conn)
       IN  /\ active_connections' = reg
           /\ fails' = [fails EXCEPT ![tk] = @ \cup {conn}]
           /\ failed' = failed \cup {conn}
           /\ interfered' = Interfere(tk, reg)
    /\ NextConnection(tk)
    /\ lastFrame' = NoFrame
    /\ UNCHANGED <<bmsg, snap, events, channel, failedAtStart>>

\* The awaited send neither returns nor raises: the call sets no timeout, the
\* task stays suspended.
SendStalls(tk) ==
    /\ UNCHANGED others
    /\ ~Running
    /\ pc[tk] = "sending"
    /\ pc' = [pc EXCEPT ![tk] = "stalled"]
    /\ lastFrame' = NoFrame
    /\ UNCHANGED <<active_connections, bmsg, snap, idx, events, channel, sendlog,
                   fails, failed, failedAtStart, interfered>>

ClearCall(tk) ==
    /\ bmsg' = [bmsg EXCEPT ![tk] = 0]
    /\ snap' = [snap EXCEPT ![tk] = <<>>]
    /\ idx' = [idx EXCEPT ![tk] = 0]
    /\ fails' = [fails EXCEPT ![tk] = {}]
    /\ failedAtStart' = [failedAtStart EXCEPT ![tk] = {}]
    /\ interfered' = [interfered EXCEPT ![tk] = FALSE]

(***************************************************************************)
(* websocket_endpoint: one task per viewer.                                *)
(***************************************************************************)

\* await manager.connect(websocket): accept, then append; the loop reaches
\* its first receive_json.
Connect(v) ==
    /\ UNCHANGED others
    /\ ~Running
    /\ pc[v] = "idle"
    /\ active_connections' = RegAppend(active_connections, v)
    /\ pc' = [pc EXCEPT ![v] = "recv"]
    /\ interfered' = Interfere(v, active_connections')
    /\ lastFrame' = NoFrame
    /\ UNCHANGED <<bmsg, snap, idx, events, channel, sendlog, fails, failed,
                   failedAtStart>>

\* except WebSocketDisconnect / except Exception: manager.disconnect(websocket)
HandlerExit(v) ==
    /\ active_connections' = disconnect(active_connections, v)
    /\ pc' = [pc EXCEPT ![v] = "closed"]
    /\ interfered' = Interfere(v, active_connections')
    /\ UNCHANGED <<bmsg, snap, idx, events, channel, sendlog, fails, failed,
                   failedAtStart>>

\* The loop body for a frame that is not a chat frame, by what the code does
\* with it:
\*   unparseable: receive_json raises (json decoding) -> except Exception
\*   non_object:  data.get raises AttributeError      -> except Exception
\*   no_type, other_type: data.get("type") != "chat", next iteration
NonChat(v, k) ==
    IF k \in {"unparseable", "non_object"}
      THEN HandlerExit(v)
      ELSE UNCHANGED <<active_connections, pc, bmsg, snap, idx, events, channel,
                       sendlog, fails, failed, failedAtStart, interfered>>

\* data = await websocket.receive_json() delivers a frame of shape k.
Receive(v, k) ==
    /\ UNCHANGED others
    /\ ~Running
    /\ pc[v] = "recv"
    /\ lastFrame' = <<v, k>>
    /\ UNCHANGED events
    /\ IF k = ChatFrame
         THEN Len(channel) < budget /\ BeginBroadcast(v, "chat")
         ELSE NonChat(v, k)

\* receive_json raises WebSocketDisconnect: the client went away.
ClientDisconnect(v) ==
    /\ UNCHANGED others
    /\ ~Running
    /\ pc[v] = "recv"
    /\ HandlerExit(v)
    /\ lastFrame' = NoFrame
    /\ UNCHANGED events

\* manager.broadcast returned inside the receive loop: back to receive_json.
HandlerContinue(v) ==
    /\ UNCHANGED others
    /\ pc[v] = "returned"
    /\ pc' = [pc EXCEPT ![v] = "recv"]
    /\ ClearCall(v)
    /\ lastFrame' = NoFrame
    /\ UNCHANGED <<active_connections, events, channel, sendlog, failed>>

(***************************************************************************)
(* launch: one task per request.                                           *)
(***************************************************************************)
NotRolled == -1

Min(a, b) == IF a < b THEN a ELSE b

\* simulate_flight(params), then the launch_log broadcast.
Launch(r) ==
    /\ UNCHANGED others
    /\ ~Running
    /\ pc[r] = "idle"
    /\ Len(channel) < budget
    /\ BeginBroadcast(r, "launch_log")
    /\ lastFrame' = NoFrame
    /\ UNCHANGED events

\* After the launch_log broadcast: roll_live_events() (no event when
\* events_enabled is false), then one chat broadcast per event, then the
\* response.
LaunchContinue(r) ==
    /\ UNCHANGED others
    /\ pc[r] = "returned"
    /\ lastFrame' = NoFrame
    /\ \E rolled \in 0..Min(NumEventTypes, budget - Len(channel)) :
         LET left == IF events[r] = NotRolled THEN rolled ELSE events[r]
         IN  /\ events[r] # NotRolled => rolled = 0
             /\ IF left > 0
                  THEN /\ BeginBroadcast(r, "chat")
                       /\ events' = [events EXCEPT ![r] = left - 1]
                  ELSE /\ pc' = [pc EXCEPT ![r] = "done"]
                       /\ ClearCall(r)
                       /\ events' = [events EXCEPT ![r] = 0]
                       /\ UNCHANGED <<active_connections, channel, sendlog, failed>>

HubInit ==
    /\ active_connections = <<>>
    /\ pc = [tk \in Tasks |-> "idle"]
    /\ bmsg = [tk \in Tasks |-> 0]
    /\ snap = [tk \in Tasks |-> <<>>]
    /\ idx = [tk \in Tasks |-> 0]
    /\ events = [tk \in Tasks |-> IF tk \in Launches THEN NotRolled ELSE 0]
    /\ channel = <<>>
    /\ sendlog = [v \in Viewers |-> <<>>]
    /\ fails = [tk \in Tasks |-> {}]
    /\ failed = {}
    /\ failedAtStart = [tk \in Tasks |-> {}]
    /\ interfered = [tk \in Tasks |-> FALSE]
    /\ lastFrame = NoFrame

\* No simulation is running.
SimIdle ==
    /\ p = [player |-> "none"]
    /\ derived = [player |-> "none"]
    /\ simpc = "idle"
    /\ t = <<0, 0>> /\ x = <<0, 0>> /\ y = <<0, 0>> /\ vx = <<0, 0>> /\ vy = <<0, 0>>
    /\ m_water = <<0, 0>> /\ m_air = <<0, 0>> /\ mass = <<0, 0>> /\ thrust = <<0, 0>>
    /\ airborne = FALSE /\ airborne_at = 0
    /\ n = 0 /\ xs_last = <<0, 0>> /\ ys_last = <<0, 0>> /\ ys_max = <<0, 0>>
    /\ max_altitude_m = <<0, 0>> /\ range_m = <<0, 0>>

HubCalls ==
    \/ \E v \in Viewers : Connect(v)
    \/ \E v \in Viewers : \E k \in FrameKinds : Receive(v, k)
    \/ \E v \in Viewers : ClientDisconnect(v)
    \/ \E v \in Viewers : HandlerContinue(v)
    \/ \E r \in Launches : Launch(r)
    \/ \E r \in Launches : LaunchContinue(r)

HubNext ==
    \/ HubCalls
    \/ \E tk \in Tasks : SendReturns(tk)
    \/ \E tk \in Tasks : SendRaises(tk)

Init == HubInit /\ budget = Cardinality(MsgIds) /\ SimIdle
Next == HubNext
Spec == Init /\ [][Next]_vars

\* The hub over sinks that finish their sends in the order send_json was
\* called on them: of two calls awaiting one viewer, the earlier ends first.
Pos(v, m) == CHOOSE i \in DOMAIN sendlog[v] : sendlog[v][i] = m
Awaits(tk, v) == pc[tk] \in {"sending", "stalled"} /\ snap[tk][idx[tk]] = v
SinkInOrder(tk) ==
    LET v == snap[tk][idx[tk]]
    IN  \A u \in Tasks \ {tk} : Awaits(u, v) => Pos(v, bmsg[tk]) < Pos(v, bmsg[u])
OrderedNext ==
    \/ HubCalls
    \/ \E tk \in Tasks : pc[tk] = "sending" /\ SinkInOrder(tk) /\ SendReturns(tk)
    \/ \E tk \in Tasks : pc[tk] = "sending" /\ SinkInOrder(tk) /\ SendRaises(tk)
OrderedInit == HubInit /\ budget = Cardinality(MsgIds) + 1 /\ SimIdle
OrderedSpec == OrderedInit /\ [][OrderedNext]_vars

\* The hub with deliveries that may stall, every task that can run being
\* scheduled (the event loop runs every ready task).
StallNext == HubNext \/ \E tk \in Tasks : SendStalls(tk)
FairSpec ==
    /\ Init
    /\ [][StallNext]_vars
    /\ \A tk \in Tasks : WF_vars(SendReturns(tk) \/ SendRaises(tk))
    /\ \A v \in Viewers : WF_vars(HandlerContinue(v))
    /\ \A r \in Launches : WF_vars(LaunchContinue(r))

(***************************************************************************)
(* Python floats.                                                          *)
(*                                                                         *)
(* A float is a pair <<m, e>> standing for m * 10^e, with a mantissa of    *)
(* MantDigits decimal digits (10^7 <= |m| < 10^8, or m = 0 and e = 0), the *)
(* range of an IEEE double (overflow to inf above 1.7976931e308), inf and  *)
(* nan.  Err is the result of an operation that raises (OverflowError,     *)
(* ZeroDivisionError, ValueError); every operation passes it on.           *)
(***************************************************************************)
MantDigits == 8
Mant == 100000000
SpecialExp == 9999
ErrExp == 8888
Inf == <<1, SpecialExp>>
NaN == <<0, SpecialExp>>
Err == <<0, ErrExp>>
Zero == <<0, 0>>

IsErr(a) == a[2] = ErrExp
IsNaN(a) == a = NaN
IsInf(a) == a[2] = SpecialExp /\ a[1] # 0
IsSpecial(a) == a[2] = SpecialExp
AnyErr(a, b) == IsErr(a) \/ IsErr(b)
AnyNaN(a, b) == IsNaN(a) \/ IsNaN(b)

Abs(i) == IF i < 0 THEN -i ELSE i
Sgn(i) == IF i > 0 THEN 1 ELSE IF i < 0 THEN -1 ELSE 0
P10(k) == <<1, 10, 100, 1000, 10000, 100000, 1000000, 10000000, 100000000,
            1000000000>>[k + 1]

\* number of decimal digits of i >= 1
Digits(i) ==
    IF i < 100000
    THEN IF i < 100 THEN (IF i < 10 THEN 1 ELSE 2)
         ELSE IF i < 1000 THEN 3 ELSE IF i < 10000 THEN 4 ELSE 5
    ELSE IF i < 10000000 THEN (IF i < 1000000 THEN 6 ELSE 7)
         ELSE IF i < 100000000 THEN 8 ELSE IF i < 1000000000 THEN 9 ELSE 10

\* i / 10^k for i >= 0, rounded to the nearest integer, ties to even
RDiv(i, k) ==
    IF k = 0 THEN i
    ELSE IF k > 9 THEN 0
    ELSE LET q == i \div P10(k)
             r == i % P10(k)
             h == P10(k) \div 2
         IN  IF r > h \/ (r = h /\ q % 2 = 1) THEN q + 1 ELSE q

\* the range of a double: overflow gives inf, underflow gives zero
Fit(m, e) ==
    IF m = 0 THEN Zero
    ELSE IF e > 301 \/ (e = 301 /\ Abs(m) >= 17976931) THEN <<Sgn(m), SpecialExp>>
    ELSE IF e < -330 THEN Zero
    ELSE <<m, e>>

\* the float nearest to the integer i times 10^e
Norm(i, e) ==
    IF i = 0 THEN Zero
    ELSE LET d == Digits(Abs(i))
             q == RDiv(Abs(i), d - MantDigits)
         IN  IF d > MantDigits
             THEN IF q >= Mant
                  THEN Fit(Sgn(i) * (q \div 10), e + d - MantDigits + 1)
                  ELSE Fit(Sgn(i) * q, e + d - MantDigits)
             ELSE Fit(i * P10(MantDigits - d), e - (MantDigits - d))

FNeg(a) == IF IsErr(a) THEN Err ELSE <<-a[1], a[2]>>
FAbs(a) == IF IsErr(a) THEN Err ELSE <<Abs(a[1]), a[2]>>

\* a + b of finite non-zero floats, hi the one with the larger exponent
AddAligned(hi, lo) ==
    LET k == hi[2] - lo[2]
        ml == IF k <= 9 THEN Sgn(lo[1]) * RDiv(Abs(lo[1]) * 10, k) ELSE 0
    IN  Norm(hi[1] * 10 + ml, hi[2] - 1)

FAdd(a, b) ==
    IF AnyErr(a, b) THEN Err
    ELSE IF AnyNaN(a, b) THEN NaN
    ELSE IF IsInf(a) THEN (IF IsInf(b) /\ b[1] # a[1] THEN NaN ELSE a)
    ELSE IF IsInf(b) THEN b
    ELSE IF a[1] = 0 THEN b
    ELSE IF b[1] = 0 THEN a
    ELSE IF a[2] >= b[2] THEN AddAligned(a, b)
    ELSE AddAligned(b, a)

FSub(a, b) == FAdd(a, FNeg(b))

\* the leading digits of the product of two mantissas
MulMant(u, v) ==
    LET a1 == u \div 10000
        a0 == u % 10000
        b1 == v \div 10000
        b0 == v % 10000
    IN  a1 * b1 * 10 + (a1 * b0 + a0 * b1 + (a0 * b0) \div 10000) \div 1000

FMul(a, b) ==
    IF AnyErr(a, b) THEN Err
    ELSE IF AnyNaN(a, b) THEN NaN
    ELSE IF IsSpecial(a) \/ IsSpecial(b)
         THEN (IF a[1] = 0 \/ b[1] = 0 THEN NaN
               ELSE <<Sgn(a[1]) * Sgn(b[1]), SpecialExp>>)
    ELSE IF a[1] = 0 \/ b[1] = 0 THEN Zero
    ELSE Norm(Sgn(a[1]) * Sgn(b[1]) * MulMant(Abs(a[1]), Abs(b[1])),
              a[2] + b[2] + 7)

\* k more decimal digits of r / v (r < v), appended to q
RECURSIVE LongDiv(_, _, _, _)
LongDiv(q, r, v, k) ==
    IF k = 0 THEN q
    ELSE IF r = 0 THEN q * P10(k)
    ELSE LongDiv(q * 10 + (r * 10) \div v, (r * 10) % v, v, k - 1)

\* a / b; a zero divisor raises ZeroDivisionError
FDiv(a, b) ==
    IF AnyErr(a, b) THEN Err
    ELSE IF AnyNaN(a, b) THEN NaN
    ELSE IF b = Zero THEN Err
    ELSE IF IsInf(a)
         THEN (IF IsInf(b) THEN NaN ELSE <<Sgn(a[1]) * Sgn(b[1]), SpecialExp>>)
    ELSE IF IsInf(b) THEN Zero
    ELSE IF a[1] = 0 THEN Zero
    ELSE Norm(Sgn(a[1]) * Sgn(b[1])
                * LongDiv(Abs(a[1]) \div Abs(b[1]), Abs(a[1]) % Abs(b[1]),
                          Abs(b[1]), MantDigits),
              a[2] - b[2] - MantDigits)

\* a > b; every comparison with nan is false
FGt(a, b) ==
    IF AnyErr(a, b) \/ AnyNaN(a, b) \/ a = b THEN FALSE
    ELSE IF IsInf(a) THEN a[1] > 0
    ELSE IF IsInf(b) THEN b[1] < 0
    ELSE IF Sgn(a[1]) # Sgn(b[1]) THEN Sgn(a[1]) > Sgn(b[1])
    ELSE IF a[1] > 0 THEN a[2] > b[2] \/ (a[2] = b[2] /\ a[1] > b[1])
    ELSE a[2] < b[2] \/ (a[2] = b[2] /\ a[1] > b[1])

FLt(a, b) == FGt(b, a)
FGe(a, b) == FGt(a, b) \/ (~IsErr(a) /\ ~IsNaN(a) /\ a = b)
FLe(a, b) == FGe(b, a)

\* max(a, b) and min(a, b) of Python: the first argument unless the second
\* compares greater (smaller)
PyMax(a, b) == IF AnyErr(a, b) THEN Err ELSE IF FGt(b, a) THEN b ELSE a
PyMin(a, b) == IF AnyErr(a, b) THEN Err ELSE IF FLt(b, a) THEN b ELSE a

RECURSIVE SqrtSearch(_, _, _)
SqrtSearch(i, lo, hi) ==
    IF lo >= hi THEN lo
    ELSE LET mid == (lo + hi + 1) \div 2
         IN  IF mid * mid <= i THEN SqrtSearch(i, mid, hi)
             ELSE SqrtSearch(i, lo, mid - 1)

\* the integer square root of i >= 0
ISqrt(i) == SqrtSearch(i, 0, IF i < 46340 THEN i ELSE 46340)

Half == <<50000000, -8>>
One == <<10000000, -7>>
Two == <<20000000, -7>>
Four == <<40000000, -7>>
Five == <<50000000, -7>>

\* one Newton step towards the square root of a
SqrtStep(a, s) == FMul(Half, FAdd(s, FDiv(a, s)))

\* math.sqrt; a negative argument raises ValueError
FSqrt(a) ==
    IF IsErr(a) THEN Err
    ELSE IF IsNaN(a) THEN NaN
    ELSE IF a[1] < 0 THEN Err
    ELSE IF IsInf(a) \/ a[1] = 0 THEN a
    ELSE LET m == IF a[2] % 2 = 0 THEN a[1] ELSE a[1] * 10
             e == IF a[2] % 2 = 0 THEN a[2] ELSE a[2] - 1
         IN  SqrtStep(a, SqrtStep(a, Norm(ISqrt(m), e \div 2)))

\* a ** 2; a result out of range raises OverflowError
FPow2(a) ==
    IF IsErr(a) THEN Err
    ELSE IF IsInf(FMul(a, a)) /\ ~IsSpecial(a) THEN Err
    ELSE FMul(a, a)

\* hi * sqrt(1 + (lo / hi)^2) for hi >= lo >= 0, hi > 0
HypotOrdered(hi, lo) ==
    FMul(hi, FSqrt(FAdd(One, FMul(FDiv(lo, hi), FDiv(lo, hi)))))

\* math.hypot; a result out of range raises OverflowError
FHypot(a, b) ==
    IF AnyErr(a, b) THEN Err
    ELSE IF IsInf(a) \/ IsInf(b) THEN Inf
    ELSE IF AnyNaN(a, b) THEN NaN
    ELSE IF a[1] = 0 /\ b[1] = 0 THEN Zero
    ELSE LET h == HypotOrdered(PyMax(FAbs(a), FAbs(b)), PyMin(FAbs(a), FAbs(b)))
         IN  IF IsInf(h) THEN Err ELSE h

\* the largest u in 1..9 with u^5 <= f
RECURSIVE IntRoot5(_, _)
IntRoot5(f, u) ==
    IF (u + 1) * (u + 1) * (u + 1) * (u + 1) * (u + 1) <= f
    THEN IntRoot5(f, u + 1) ELSE u

\* one Newton step towards the fifth root of c
Root5Step(c, r) ==
    FDiv(FAdd(FMul(Four, r), FDiv(c, FMul(FMul(r, r), FMul(r, r)))), Five)

\* Newton steps towards the fifth root of c, at most k, until nothing changes
RECURSIVE Root5Newton(_, _, _)
Root5Newton(c, r, k) ==
    IF k = 0 \/ Root5Step(c, r) = r THEN r
    ELSE Root5Newton(c, Root5Step(c, r), k - 1)

\* c ** 0.2 for a finite c > 0: c = f * 10^(5j) with 1 <= f < 10^5
Root5(c) ==
    LET k == (c[2] + 7) % 5
        j == (c[2] + 7 - k) \div 5
        f == c[1] \div P10(7 - k)
    IN  Root5Newton(c, Norm(IntRoot5(f, 1) + 1, j), 8)

\* a ** gamma, gamma = 1.4, for a >= 0
PowGamma(a) ==
    IF IsErr(a) THEN Err
    ELSE IF IsNaN(a) THEN NaN
    ELSE IF a[1] < 0 THEN Err
    ELSE IF a[1] = 0 THEN Zero
    ELSE IF IsInf(a) THEN Inf
    ELSE IF IsInf(FMul(a, a)) THEN Err
    ELSE LET r == FMul(a, Root5(FMul(a, a)))
         IN  IF IsInf(r) THEN Err ELSE r

\* a ** (-gamma) for a > 0; zero raises ZeroDivisionError
PowNegGamma(a) ==
    IF IsErr(a) THEN Err
    ELSE IF IsNaN(a) THEN NaN
    ELSE IF IsInf(a) THEN Zero
    ELSE FDiv(One, PowGamma(a))

\* round(a, 2)
Round2(a) ==
    IF IsErr(a) \/ IsSpecial(a) \/ a[1] = 0 \/ a[2] >= -2 THEN a
    ELSE Norm(Sgn(a[1]) * RDiv(Abs(a[1]), -2 - a[2]), -2)

\* the float i * 10^e
F(i, e) == Norm(i, e)

(***************************************************************************)
(* simulate_flight: the fixed-step integrator.                             *)
(***************************************************************************)
rho_water == F(1000, 0)
rho_air == F(1225, -3)
g == F(981, -2)
Cd == F(5, -1)
pi == <<31415927, -7>>
atm == F(101325, 0)
dt == F(5, -3)
t_max == F(60, 0)
\* t_max / dt
MaxSteps == 12000

\* The parameter grid: LaunchParams (litres, cm, cm, litres, psi, -, m/s).
LaunchParamsSet ==
    [bottle_volume_l : {F(2, 0)}, bottle_diameter_cm : {F(10, 0)},
     nozzle_diameter_cm : {F(2, 0)},
     water_volume_l : {F(0, 0), F(7, -1), F(14, -1)},
     air_pressure_psi : {F(0, 0), F(60, 0), F(1, 200)},
     soap_amount : {F(0, 0), F(1, 0)},
     wind_speed_ms : {F(-5, 0), F(0, 0), F(5, 0)}]

\* Lines 76-86 and 107: the quantities derived from the parameters.
bottle_volume(q) == FDiv(q.bottle_volume_l, F(1000, 0))
water_volume(q) ==
    PyMax(PyMin(FDiv(q.water_volume_l, F(1000, 0)), bottle_volume(q)), Zero)
nozzle_area(q) == FMul(pi, FPow2(FDiv(FDiv(q.nozzle_diameter_cm, F(100, 0)), Two)))
bottle_area(q) == FMul(pi, FPow2(FDiv(FDiv(q.bottle_diameter_cm, F(100, 0)), Two)))
p_abs_init(q) == FAdd(FMul(q.air_pressure_psi, F(689476, -2)), atm)
dry_mass(q) == FAdd(F(15, -2), FMul(F(1, -1), q.soap_amount))
init_air_volume(q) == FSub(bottle_volume(q), water_volume(q))
air_vol_init(q) == PyMax(init_air_volume(q), F(1, -9))

\* Lines 76-107: the locals set before the loop.
Derived(q) ==
    [bottle_volume |-> bottle_volume(q), nozzle_area |-> nozzle_area(q),
     bottle_area |-> bottle_area(q), p_abs_init |-> p_abs_init(q),
     dry_mass |-> dry_mass(q), air_vol_init |-> air_vol_init(q),
     wind_speed_ms |-> q.wind_speed_ms]

pressure_water_phase(p0, air_vol_now, avi) ==
    IF FLe(avi, Zero) THEN atm
    ELSE FAdd(atm, FMul(FSub(p0, atm),
                        PowGamma(FDiv(avi, PyMax(air_vol_now, F(1, -9))))))

pressure_air_phase(p0, vol_ratio) == FMul(p0, PowNegGamma(vol_ratio))

\* dp = max(p - 101325.0, 0.0)
GaugeForgotten(pr) == pr
ExcessPressure(pr) == PyMax(FSub(pr, atm), Zero)

\* dm = min(m_dot * dt, max(m * 0.25, 1e-6))
Ejected(m_dot, m) == PyMin(FMul(m_dot, dt), PyMax(FMul(m, F(25, -2)), F(1, -6)))

\* Lines 114-126: the water phase, dp being known.
WaterPhase(d, dp, mw, ma) ==
    IF IsErr(dp) THEN [thrust |-> Err, m_water |-> mw, m_air |-> ma, mass |-> Err]
    ELSE IF FGt(dp, Zero) THEN
        LET m_dot_w == FMul(FMul(rho_water, d.nozzle_area),
                            FSqrt(FDiv(FMul(Two, dp), rho_water)))
            m_water2 == FSub(mw, Ejected(m_dot_w, mw))
        IN  [thrust |-> FMul(d.nozzle_area, FSqrt(FMul(FMul(Two, dp), rho_water))),
             m_water |-> m_water2, m_air |-> ma,
             mass |-> FAdd(FAdd(d.dry_mass, m_water2), ma)]
    ELSE [thrust |-> Zero, m_water |-> Zero, m_air |-> ma,
          mass |-> FAdd(d.dry_mass, ma)]

\* Lines 128-140: the air phase, dp being known.
AirPhase(d, dp, mw, ma) ==
    IF IsErr(dp) THEN [thrust |-> Err, m_water |-> mw, m_air |-> ma, mass |-> Err]
    ELSE IF FGt(dp, Zero) THEN
        LET m_dot_a == FMul(FMul(d.nozzle_area, rho_air),
                            FSqrt(FDiv(FMul(Two, dp), rho_air)))
            m_air2 == FSub(ma, Ejected(m_dot_a, ma))
        IN  [thrust |-> FMul(d.nozzle_area, dp), m_water |-> mw, m_air |-> m_air2,
             mass |-> FAdd(d.dry_mass, m_air2)]
    ELSE [thrust |-> Zero, m_water |-> mw, m_air |-> Zero, mass |-> d.dry_mass]

\* Lines 112-140: thrust and the propellant left after one step.
Propellant(d, mw, ma) ==
    IF FGt(mw, F(1, -8)) /\ FGt(d.nozzle_area, Zero) THEN
        WaterPhase(d,
                   ExcessPressure(pressure_water_phase(d.p_abs_init,
                       FSub(d.bottle_volume, FDiv(mw, rho_water)), d.air_vol_init)),
                   mw, ma)
    ELSE IF FGt(ma, F(1, -8)) /\ FGt(d.nozzle_area, Zero) THEN
        AirPhase(d,
                 ExcessPressure(pressure_air_phase(d.p_abs_init,
                     FDiv(d.bottle_volume, d.air_vol_init))),
                 mw, ma)
    ELSE [thrust |-> Zero, m_water |-> mw, m_air |-> ma, mass |-> d.dry_mass]

\* Lines 145-147: <<drag_x, drag_y>> from the relative velocity and its norm.
DragOf(d, rx, ry, v_rel) ==
    LET drag == FMul(FMul(FMul(FMul(F(5, -1), rho_air), FPow2(v_rel)), Cd),
                     d.bottle_area)
    IN  <<FMul(FNeg(drag), FDiv(rx, FAdd(v_rel, F(1, -9)))),
          FMul(FNeg(drag), FDiv(ry, FAdd(v_rel, F(1, -9))))>>

\* Lines 142-147
Drag(d, rx, ry) == DragOf(d, rx, ry, FHypot(rx, ry))

\* ys.append(max(y, 0.0))
Clamp(h) == PyMax(h, Zero)

\* if airborne and y <= 0 and vy <= 0: break
BreakOnGround(flag, h, vh) == FLe(h, Zero) /\ FLe(vh, Zero)
Landed(flag, h, vh) == flag /\ FLe(h, Zero) /\ FLe(vh, Zero)

\* Lines 149-157: velocity and position after the step.
Move(b, f, ux, uy, px, py) ==
    LET vx2 == FAdd(ux, FMul(FDiv(f[1], b.mass), dt))
        vy2 == FAdd(uy, FMul(FSub(FAdd(FDiv(b.thrust, b.mass), FDiv(f[2], b.mass)), g),
                             dt))
    IN  [vx |-> vx2, vy |-> vy2,
         x |-> FAdd(px, FMul(vx2, dt)), y |-> FAdd(py, FMul(vy2, dt))]

\* Lines 142-160: drag, acceleration, integration.
Integrate(d, b, ux, uy, px, py) ==
    Move(b, Drag(d, FSub(ux, d.wind_speed_ms), uy), ux, uy, px, py)

\* An exception left the function.
Raises(s) == IsErr(s.vx) \/ IsErr(s.vy) \/ IsErr(s.x) \/ IsErr(s.y)

\* Lines 70-109: the state when the loop is first reached.
SimStart(q) ==
    /\ p = q
    /\ derived = Derived(q)
    /\ simpc = IF IsErr(nozzle_area(q)) \/ IsErr(bottle_area(q)) THEN "raised"
               ELSE "loop"
    /\ t = Zero /\ x = Zero /\ y = Zero /\ vx = Zero /\ vy = Zero
    /\ m_water = FMul(rho_water, water_volume(q))
    /\ m_air = FMul(PyMax(init_air_volume(q), Zero), rho_air)
    /\ mass = FAdd(FAdd(dry_mass(q), FMul(rho_water, water_volume(q))),
                   FMul(PyMax(init_air_volume(q), Zero), rho_air))
    /\ thrust = Zero
    /\ airborne = FALSE /\ airborne_at = 0
    /\ n = 0 /\ xs_last = Zero /\ ys_last = Zero /\ ys_max = Zero
    /\ max_altitude_m = Zero /\ range_m = Zero

\* Lines 111-169: one iteration of the loop.
SimStep ==
    /\ simpc = "loop"
    /\ FLt(t, t_max)
    /\ \E b \in {Propellant(derived, m_water, m_air)} :
       \E s \in {Integrate(derived, b, vx, vy, x, y)} :
         /\ thrust' = b.thrust
         /\ m_water' = b.m_water
         /\ m_air' = b.m_air
         /\ mass' = b.mass
         /\ IF Raises(s)
            THEN /\ simpc' = "raised"
                 /\ UNCHANGED <<t, x, y, vx, vy, airborne, airborne_at, n,
                                xs_last, ys_last, ys_max>>
            ELSE /\ vx' = s.vx /\ vy' = s.vy /\ x' = s.x /\ y' = s.y
                 /\ airborne' = (airborne \/ FGt(s.y, Zero))
                 /\ airborne_at' = IF ~airborne /\ FGt(s.y, Zero) THEN n + 1
                                   ELSE airborne_at
                 /\ n' = n + 1
                 /\ xs_last' = s.x
                 /\ ys_last' = Clamp(s.y)
                 /\ ys_max' = IF n = 0 THEN Clamp(s.y) ELSE PyMax(ys_max, Clamp(s.y))
                 /\ t' = FAdd(t, dt)
                 /\ simpc' = IF Landed(airborne \/ FGt(s.y, Zero), s.y, s.vy)
                             THEN "exit" ELSE "loop"
    /\ UNCHANGED <<p, derived, max_altitude_m, range_m>>
    /\ UNCHANGED hubvars

\* Lines 111 and 171-177: the loop is left and the result is assembled.
SimReturn ==
    /\ simpc = "exit" \/ (simpc = "loop" /\ ~FLt(t, t_max))
    /\ simpc' = "done"
    /\ max_altitude_m' = IF n > 0 THEN Round2(ys_max) ELSE Zero
    /\ range_m' = IF n > 0 THEN Round2(xs_last) ELSE Zero
    /\ UNCHANGED <<p, derived, t, x, y, vx, vy, m_water, m_air, mass, thrust, airborne,
                   airborne_at, n, xs_last, ys_last, ys_max>>
    /\ UNCHANGED hubvars

SimInit == HubInit /\ budget = 0 /\ \E q \in LaunchParamsSet : SimStart(q)
SimNext == SimStep \/ SimReturn
SimSpec == SimInit /\ [][SimNext]_vars


(***************************************************************************)
(* Properties.                                                             *)
(***************************************************************************)
NoDuplicates(list) == \A i, j \in DOMAIN list : i # j => list[i] # list[j]
Without(list, set) == SelectSeq(list, LAMBDA c : c \notin set)

\* C1: a broadcast call in which exactly one viewer's delivery raises, and
\* during which no other operation changes the registry, has sent the message
\* to every other viewer of its snapshot when it returns, and leaves the
\* registry equal to the prior registry without that viewer.
C1_FailureIsolated ==
    \A tk \in Tasks :
        (pc[tk] = "returned" /\ ~interfered[tk] /\ Cardinality(fails[tk]) = 1) =>
            /\ \A v \in Range(snap[tk]) \ fails[tk] : bmsg[tk] \in Range(sendlog[v])
            /\ active_connections = Without(snap[tk], fails[tk])

C1_Witness ==
    \E tk \in Tasks :
        /\ pc[tk] = "returned"
        /\ ~interfered[tk]
        /\ Cardinality(fails[tk]) = 1
        /\ Len(snap[tk]) = NumViewers
        /\ Len(active_connections) = NumViewers - 1

\* C2: every viewer is sent the messages of one channel in the order the hub
\* accepted them.
C2_SameChannelOrder ==
    \A v \in Viewers : \A i, j \in DOMAIN sendlog[v] :
        (i < j /\ channel[sendlog[v][i]] = channel[sendlog[v][j]])
            => sendlog[v][i] < sendlog[v][j]

\* C3: a broadcast call whose delivery to one viewer stalls still returns.
C3_StallBounded ==
    \A tk \in Tasks : (pc[tk] = "stalled") ~> (pc[tk] = "returned")

\* C4: an inbound frame that is not a chat frame starts no broadcast, leaves
\* the registry as it is and leaves the viewer's receive loop running.
C4_NonChatIgnored ==
    [][\A v \in Viewers : \A k \in NonChatFrames :
          lastFrame' = <<v, k>> =>
              /\ channel' = channel
              /\ active_connections' = active_connections
              /\ pc'[v] = "recv"]_vars

\* C8: the registry holds no viewer twice.
C8_NoDuplicates == NoDuplicates(active_connections)

C8_Witness ==
    /\ Len(active_connections) >= 1
    /\ failed # {}
    /\ \E v \in Viewers : pc[v] = "closed"
    /\ Len(channel) = budget

\* C10 as stated: once a delivery to a viewer has raised, send_json is never
\* called on that viewer again.
C10_NoAttemptAfterFailure ==
    [][\A v \in failed : sendlog'[v] = sendlog[v]]_vars

\* C10 amended: a viewer whose delivery has raised is not in the registry, and
\* no broadcast call that starts afterwards has it in its snapshot.
C10_NoNewCallToFailed ==
    /\ \A v \in failed : v \notin Range(active_connections)
    /\ \A tk \in Tasks : InFlight(tk) => Range(snap[tk]) \cap failedAtStart[tk] = {}

C10_Witness ==
    \E tk \in Tasks :
        /\ pc[tk] = "sending"
        /\ failedAtStart[tk] # {}
        /\ \E u \in Tasks \ {tk} : pc[u] = "sending" /\ fails[u] # {}

\* The parameters of the boundary case: no pressure, no water.
NoPropellant == p.air_pressure_psi = Zero /\ p.water_volume_l = Zero

\* C5: for every valid LaunchParams the run takes at most t_max / dt steps,
\* does not raise, and returns at least one sample, every reported height
\* being >= 0.
C5_TerminatesNonEmptyNonNegative ==
    /\ simpc # "raised"
    /\ n <= MaxSteps
    /\ n >= 1 => FGe(ys_last, Zero)
    /\ simpc = "done" => n >= 1

\* C6: the loop ends before the time cutoff only at a step where the
\* airborne flag was set by an earlier step and the unclamped height and the
\* vertical velocity are both <= 0; a run whose height is never > 0 runs
\* until the cutoff.
C6_EarlyEndOnlyAfterFlight ==
    /\ (simpc \in {"exit", "done"} /\ FLt(t, t_max)) =>
           /\ airborne /\ airborne_at >= 1 /\ airborne_at < n
           /\ FLe(y, Zero) /\ FLe(vy, Zero)
    /\ (simpc \in {"exit", "done"} /\ ~airborne) => ~FLt(t, t_max) /\ n = MaxSteps
    /\ (n >= 1 /\ ~airborne) => simpc \in {"loop", "done"} /\ ~FGt(y, Zero)

C6_Witness ==
    /\ p.air_pressure_psi = F(60, 0)
    /\ simpc = "done" /\ FLt(t, t_max)
    /\ airborne /\ airborne_at < n /\ FLe(y, Zero)

C9_PropellantNonNegative == FGe(m_water, Zero) /\ FGe(m_air, Zero)

====
